---- MODULE Spec2Model ----
(***************************************************************************)
(* TSheets Schedule Manager (src/app.py): a Streamlit script that turns    *)
(* one button press into at most one HTTP request against                  *)
(* /api/v1/schedule_events and renders the answer.                         *)
(*                                                                         *)
(* Text is a sequence of one-character strings, Python values are tagged   *)
(* records [t, v], Python dicts are sequences of <<key, value>> pairs in   *)
(* insertion order.  The remote API is an external collaborator: it        *)
(* answers every request with a status code and a JSON document.           *)
(***************************************************************************)
EXTENDS Integers, Sequences, FiniteSets, TLC

\* ------------------------------------------------------------------ bounds
MaxEventId == 2
MaxDay == 2

\* --------------------------------------------------------------- constants
API_BASE_URL == "https://rest.tsheets.com/api/v1"
SCHEDULE_CALENDAR_ID == 563646

\* -------------------------------------------------------------------- text
Digits == <<"0", "1", "2", "3", "4", "5", "6", "7", "8", "9">>

IsDigit(c) == \E i \in 1..10 : Digits[i] = c

DigitValue(c) == (CHOOSE i \in 1..10 : Digits[i] = c) - 1

\* Zero-padded decimal rendering, as the %02d / %04d / %06d of isoformat().
RECURSIVE Pad(_, _)
Pad(n, width) ==
    IF width = 0 THEN <<>>
    ELSE Append(Pad(n \div 10, width - 1), Digits[(n % 10) + 1])

\* str(n) for n >= 0.
RECURSIVE IntText(_)
IntText(n) ==
    IF n < 10 THEN <<Digits[n + 1]>>
    ELSE Append(IntText(n \div 10), Digits[(n % 10) + 1])

RECURSIVE LStrip(_)
LStrip(s) == IF Len(s) > 0 /\ Head(s) = " " THEN LStrip(Tail(s)) ELSE s

RECURSIVE RStrip(_)
RStrip(s) ==
    IF Len(s) > 0 /\ s[Len(s)] = " " THEN RStrip(SubSeq(s, 1, Len(s) - 1)) ELSE s

\* str.strip()
Strip(s) == RStrip(LStrip(s))

\* str.split(sep): always at least one piece.
RECURSIVE Split(_, _)
Split(s, sep) ==
    IF \A i \in 1..Len(s) : s[i] # sep THEN <<s>>
    ELSE LET k == CHOOSE i \in 1..Len(s) :
                      s[i] = sep /\ \A j \in 1..(i - 1) : s[j] # sep
         IN  <<SubSeq(s, 1, k - 1)>> \o Split(SubSeq(s, k + 1, Len(s)), sep)

RECURSIVE DigitsValue(_)
DigitsValue(s) ==
    IF Len(s) = 0 THEN 0
    ELSE 10 * DigitsValue(SubSeq(s, 1, Len(s) - 1)) + DigitValue(s[Len(s)])

\* int(text): surrounding blanks are dropped, one optional sign, then one or
\* more decimal digits; anything else raises ValueError (ok = FALSE).  The
\* texts of this model hold no underscore and no blank other than " ".
ParseInt(s) ==
    LET body   == Strip(s)
        signed == Len(body) > 0 /\ body[1] \in {"+", "-"}
        digs   == IF signed THEN Tail(body) ELSE body
    IN  IF Len(digs) > 0 /\ \A i \in 1..Len(digs) : IsDigit(digs[i])
        THEN [ok |-> TRUE,
              v  |-> IF signed /\ body[1] = "-" THEN 0 - DigitsValue(digs)
                     ELSE DigitsValue(digs)]
        ELSE [ok |-> FALSE, v |-> 0]

\* ---------------------------------------------------------------- datetime
MinTime == [hour |-> 0, minute |-> 0, second |-> 0, microsecond |-> 0]

MaxTime == [hour |-> 23, minute |-> 59, second |-> 59, microsecond |-> 999999]

\* datetime.combine(date, time).replace(tzinfo=timezone.utc)
CombineUtc(date, time) ==
    [year |-> date.year, month |-> date.month, day |-> date.day,
     hour |-> time.hour, minute |-> time.minute, second |-> time.second,
     microsecond |-> time.microsecond]

\* dt.replace(microsecond=0)
ReplaceMicrosecond0(dt) == [dt EXCEPT !.microsecond = 0]

\* dt.isoformat() of a UTC datetime: the fraction is printed only when the
\* microsecond field is not zero.
Isoformat(dt) ==
    Pad(dt.year, 4) \o <<"-">> \o Pad(dt.month, 2) \o <<"-">> \o Pad(dt.day, 2)
    \o <<"T">> \o Pad(dt.hour, 2) \o <<":">> \o Pad(dt.minute, 2)
    \o <<":">> \o Pad(dt.second, 2)
    \o (IF dt.microsecond # 0 THEN <<".">> \o Pad(dt.microsecond, 6) ELSE <<>>)
    \o <<"+", "0", "0", ":", "0", "0">>

\* A timestamp text carries a sub-second fraction.
HasMicroseconds(s) == \E i \in 1..Len(s) : s[i] = "."

\* ----------------------------------------------------------- python values
PyNone == [t |-> "none", v |-> 0]

PyInt(n) == [t |-> "int", v |-> n]

PyStr(s) == [t |-> "str", v |-> s]

PyBool(b) == [t |-> "bool", v |-> b]

PyList(l) == [t |-> "list", v |-> l]

PyDict(d) == [t |-> "dict", v |-> d]

IsNone(x) == x.t = "none"

\* bool(x)
Truthy(x) ==
    CASE x.t = "none" -> FALSE
      [] x.t = "int"  -> x.v # 0
      [] x.t = "bool" -> x.v
      [] OTHER        -> Len(x.v) > 0

\* Plain dict (a sequence of <<key, value>> pairs with distinct keys).
DictKeys(d) == {d[i][1] : i \in 1..Len(d)}

DictHas(d, k) == k \in DictKeys(d)

\* d.get(k, default)
DictGet(d, k, default) ==
    IF DictHas(d, k) THEN d[CHOOSE i \in 1..Len(d) : d[i][1] = k][2] ELSE default

\* d[k] = v
DictSet(d, k, v) ==
    IF DictHas(d, k)
    THEN [i \in 1..Len(d) |-> IF d[i][1] = k THEN <<k, v>> ELSE d[i]]
    ELSE Append(d, <<k, v>>)

\* {k: v for k, v in d.items() if v is not None}
DropNone(d) == SelectSeq(d, LAMBDA kv : ~IsNone(kv[2]))

\* --------------------------------------------------------------- remote API
\* Status codes the remote API answers with.
StatusCodes == {200, 201, 404}

\* Raw bodies (response.text) of the answers to GET schedule_events.
FetchBodies ==
    {"{}",
     "null",
     "[]",
     "{\"results\": null}",
     "{\"results\": {}}",
     "{\"results\": {\"schedule_events\": {}}}",
     "{\"results\": {\"schedule_events\": {\"1\": {\"id\": 1, \"title\": \"A\"}}}}",
     "{\"results\": {\"schedule_events\": {\"1\": {\"id\": 1, \"title\": \"A\"}, \"2\": 7}}}",
     "{\"results\": {\"schedule_events\": [{\"id\": 1, \"title\": \"A\"}]}}",
     "{\"results\": {\"schedule_events\": 3}}"}

\* Raw bodies of the answers to POST / PUT schedule_events.
WriteBodies ==
    {"{\"results\": {\"schedule_events\": {}}}",
     "{\"error\": {\"code\": 417}}"}

EventA == PyDict(<< <<"id", PyInt(1)>>, <<"title", PyStr(<<"A">>)>> >>)

Results(schedule_events) ==
    PyDict(<< <<"results", PyDict(<< <<"schedule_events", schedule_events>> >>)>> >>)

\* response.json(): the parsed document of each raw body above.
Json(text) ==
    CASE text = "{}"   -> PyDict(<<>>)
      [] text = "null" -> PyNone
      [] text = "[]"   -> PyList(<<>>)
      [] text = "{\"results\": null}" -> PyDict(<< <<"results", PyNone>> >>)
      [] text = "{\"results\": {}}"   -> PyDict(<< <<"results", PyDict(<<>>)>> >>)
      [] text = "{\"results\": {\"schedule_events\": {}}}" -> Results(PyDict(<<>>))
      [] text = "{\"results\": {\"schedule_events\": {\"1\": {\"id\": 1, \"title\": \"A\"}}}}"
            -> Results(PyDict(<< <<"1", EventA>> >>))
      [] text = "{\"results\": {\"schedule_events\": {\"1\": {\"id\": 1, \"title\": \"A\"}, \"2\": 7}}}"
            -> Results(PyDict(<< <<"1", EventA>>, <<"2", PyInt(7)>> >>))
      [] text = "{\"results\": {\"schedule_events\": [{\"id\": 1, \"title\": \"A\"}]}}"
            -> Results(PyList(<<EventA>>))
      [] text = "{\"results\": {\"schedule_events\": 3}}" -> Results(PyInt(3))
      [] text = "{\"error\": {\"code\": 417}}"
            -> PyDict(<< <<"error", PyDict(<< <<"code", PyInt(417)>> >>)>> >>)

Responses(bodies) == [status_code : StatusCodes, text : bodies]

\* Events that exist on the remote calendar.
EventIds == 1..MaxEventId

\* The event a write request targets: the "id" of its data element when that
\* is an existing event, 0 otherwise.
TargetId(request) ==
    LET data == request.json.data[1]
        id   == DictGet(data, "id", PyNone)
    IN  IF request.method = "PUT" /\ id.t = "int" /\ id.v \in EventIds
        THEN id.v ELSE 0

\* The remote side applies an accepted PUT to the event it names: the active
\* flag of the data element, when it has one, becomes the event's flag.
RemoteApply(remote, request, response) ==
    LET id     == TargetId(request)
        active == DictGet(request.json.data[1], "active", PyNone)
    IN  IF id # 0 /\ response.status_code \in {200, 201} /\ active.t = "bool"
        THEN [remote EXCEPT ![id] = active.v]
        ELSE remote

\* ------------------------------------------------------------ user interface
\* One rendered element: st.success / st.error / st.warning / st.json, one
\* listed event, or the traceback Streamlit shows for an uncaught exception.
Ui(kind, what, status, detail) ==
    [kind |-> kind, what |-> what, status |-> status, detail |-> detail]

RawText(text) == [t |-> "text", v |-> text]

Exception(what) == Ui("exception", what, 0, PyNone)

\* ---------------------------------------------------------------- adapter
HEADERS(api_token) ==
    [Authorization |-> <<"Bearer ", api_token>>, ContentType |-> "application/json"]


\* Faulty variant: the parsed body is handed back even when the status is not 200.
fetch_schedule_events_leaky(start, end, api_token, response) ==
    LET get == [method |-> "GET", url |-> <<API_BASE_URL, "/schedule_events">>,
                headers |-> HEADERS(api_token),
                params |-> [start |-> start, end |-> end,
                            schedule_calendar_ids |-> IntText(SCHEDULE_CALENDAR_ID),
                            supplemental_data |-> "yes"]]
    IN  IF response.status_code = 200
        THEN [sent |-> <<get>>, data |-> Json(response.text), ui |-> <<>>]
        ELSE [sent |-> <<get>>, data |-> Json(response.text),
              ui |-> <<Ui("error", "Error fetching schedules",
                          response.status_code, RawText(response.text))>>]

\* fetch_schedule_events(start, end): the request it issues, what it returns
\* and what it renders, given the answer of the remote API.
fetch_schedule_events(start, end, api_token, response) ==
    LET url    == <<API_BASE_URL, "/schedule_events">>
        params == [start |-> start, end |-> end,
                   schedule_calendar_ids |-> IntText(SCHEDULE_CALENDAR_ID),
                   supplemental_data |-> "yes"]
        get    == [method |-> "GET", url |-> url,
                   headers |-> HEADERS(api_token), params |-> params]
    IN  IF response.status_code = 200
        THEN [sent |-> <<get>>, data |-> Json(response.text), ui |-> <<>>]
        ELSE [sent |-> <<get>>, data |-> PyNone,
              ui |-> <<Ui("error", "Error fetching schedules",
                          response.status_code, RawText(response.text))>>]

WriteRequest(method, data, api_token) ==
    [method |-> method, url |-> <<API_BASE_URL, "/schedule_events">>,
     headers |-> HEADERS(api_token),
     json |-> [data |-> <<data>>, team_events |-> "base"]]


\* Faulty variant: the fixed id is only a default, a caller's value is kept.
create_schedule_event_keep(event_data, api_token) ==
    WriteRequest("POST",
                 IF DictHas(event_data, "schedule_calendar_id") THEN event_data
                 ELSE DictSet(event_data, "schedule_calendar_id",
                              PyInt(SCHEDULE_CALENDAR_ID)),
                 api_token)

\* create_schedule_event(event_data): the POST it issues.
create_schedule_event(event_data, api_token) ==
    WriteRequest("POST",
                 DictSet(event_data, "schedule_calendar_id", PyInt(SCHEDULE_CALENDAR_ID)),
                 api_token)

\* update_schedule_event(event_data): the PUT it issues.
update_schedule_event(event_data, api_token) ==
    WriteRequest("PUT",
                 DictSet(event_data, "schedule_calendar_id", PyInt(SCHEDULE_CALENDAR_ID)),
                 api_token)


\* Faulty variant: the flag is written as True.
delete_schedule_event_active(event_id, api_token) ==
    WriteRequest("PUT",
                 << <<"id", PyInt(event_id)>>,
                    <<"schedule_calendar_id", PyInt(SCHEDULE_CALENDAR_ID)>>,
                    <<"active", PyBool(TRUE)>> >>,
                 api_token)

\* Faulty variant: the calendar id is left out of the data element.
delete_schedule_event_bare(event_id, api_token) ==
    WriteRequest("PUT",
                 << <<"id", PyInt(event_id)>>, <<"active", PyBool(FALSE)>> >>,
                 api_token)

\* delete_schedule_event(event_id): the PUT it issues.
delete_schedule_event(event_id, api_token) ==
    WriteRequest("PUT",
                 << <<"id", PyInt(event_id)>>,
                    <<"schedule_calendar_id", PyInt(SCHEDULE_CALENDAR_ID)>>,
                    <<"active", PyBool(FALSE)>> >>,
                 api_token)


\* Faulty variant: only 200 counts as success.
RenderWrite_only200(response, done, failed) ==
    IF response.status_code = 200
    THEN <<Ui("success", done, 0, PyNone), Ui("json", "", 0, Json(response.text))>>
    ELSE <<Ui("error", failed, response.status_code, RawText(response.text))>>

\* The success / failure rendering shared by the three write pages.
RenderWrite(response, done, failed) ==
    IF response.status_code \in {200, 201}
    THEN <<Ui("success", done, 0, PyNone), Ui("json", "", 0, Json(response.text))>>
    ELSE <<Ui("error", failed, response.status_code, RawText(response.text))>>

\* ------------------------------------------------------------------ state
VARIABLES
    api_token,     \* the sidebar's "Enter API Token" text
    page,          \* the sidebar's "Select Page" choice
    pressed,       \* the button this script run handles ("" when none)
    form,          \* the widget values that run read
    sent,          \* the HTTP requests that run issued, in order
    response,      \* the answer to the last of them
    data,          \* what fetch_schedule_events returned to the page
    ui,            \* what that run rendered below the form, in order
    remoteActive,  \* remote side: the active flag of every event
    activeBefore   \* the targeted event's flag when the request left

vars == <<api_token, page, pressed, form, sent, response, data, ui,
          remoteActive, activeBefore>>

Pages == {"Home", "View Schedules", "Create Schedule", "Update Schedule",
          "Delete Schedule"}

NoResponse == [status_code |-> 0, text |-> ""]

\* ----------------------------------------------------------------- inputs
Tokens == {<<>>, <<"t", "k">>}

Dates == {[year |-> 2025, month |-> 2, day |-> d] : d \in 1..MaxDay}

\* The clock reading the Create page's default texts are made from.
Now == [year |-> 2025, month |-> 2, day |-> 21, hour |-> 9, minute |-> 30,
        second |-> 15, microsecond |-> 123456]

\* datetime + timedelta(hours=2), within the day.
PlusTwoHours(dt) == [dt EXCEPT !.hour = dt.hour + 2]

\* Line 151 / 152: the value the Start / End text inputs are created with.
DefaultStart == Isoformat(ReplaceMicrosecond0(Now))

DefaultEnd == Isoformat(ReplaceMicrosecond0(PlusTwoHours(Now)))

\* What a user may leave or type in the timestamp inputs.
StartTexts == {<<>>, DefaultStart, Isoformat(Now)}

EndTexts == {<<>>, Isoformat(PlusTwoHours(Now))}

EventIdTexts == {IntText(i) : i \in EventIds} \cup {<<>>, <<"x">>}

TitleTexts == {<<>>, <<"T">>}

NotesTexts == {<<>>, <<"n">>}

ColorTexts == {<<>>, <<"#", "f", "0", "0">>}

UserIdsTexts == {<<>>, <<"1", ",", " ", "2">>, <<"1", ",", "x">>}

JobcodeTexts == {<<>>, <<"7">>, <<"x">>}

\* --------------------------------------------------------------- form layer
\* [int(uid.strip()) for uid in text.split(",") if uid.strip()]: the parse of
\* every kept piece, in order.
ParseUserIds(text) ==
    LET pieces == SelectSeq(Split(text, ","), LAMBDA uid : Len(Strip(uid)) > 0)
    IN  [i \in 1..Len(pieces) |-> ParseInt(Strip(pieces[i]))]

AllOk(parsed) == \A i \in 1..Len(parsed) : parsed[i].ok

IntList(parsed) == PyList([i \in 1..Len(parsed) |-> PyInt(parsed[i].v)])

\* Lines 133-139: one listed event per item, until an item is not a mapping.
RECURSIVE RenderEvents(_)
RenderEvents(items) ==
    IF Len(items) = 0 THEN <<>>
    ELSE LET event == Head(items)[2]
         IN  IF event.t # "dict" THEN <<Exception("AttributeError")>>
             ELSE <<Ui("event", "Event ID", 0,
                       PyDict(<< <<"id", DictGet(event.v, "id", PyStr(<<"N/A">>))>>,
                                 <<"title", DictGet(event.v, "title", PyStr(<<"N/A">>))>>,
                                 <<"start", DictGet(event.v, "start", PyStr(<<"N/A">>))>>,
                                 <<"end", DictGet(event.v, "end", PyStr(<<"N/A">>))>>,
                                 <<"notes", DictGet(event.v, "notes", PyStr(<<>>))>> >>))>>
                  \o RenderEvents(Tail(items))

\* Lines 129-141: what the View Schedules page renders for the value
\* fetch_schedule_events returned.
RenderSchedules(fetched) ==
    IF ~Truthy(fetched) THEN <<>>
    ELSE IF fetched.t # "dict" THEN <<Exception("AttributeError")>>
    ELSE LET results == DictGet(fetched.v, "results", PyDict(<<>>))
         IN  IF results.t # "dict" THEN <<Exception("AttributeError")>>
             ELSE LET schedules == DictGet(results.v, "schedule_events", PyDict(<<>>))
                  IN  IF ~Truthy(schedules)
                      THEN <<Ui("warning", "No schedule events found for the selected range.",
                                0, PyNone)>>
                      ELSE IF schedules.t \notin {"dict", "list", "str"}
                      THEN <<Exception("TypeError")>>
                      ELSE <<Ui("success", "Fetched schedule event(s).", 0,
                                PyInt(Len(schedules.v)))>>
                           \o (IF schedules.t # "dict"
                               THEN <<Exception("AttributeError")>>
                               ELSE RenderEvents(schedules.v))

\* Lines 163-175: the mapping the Create page hands to create_schedule_event.
CreateEventData(f) ==
    DropNone(<< <<"start", PyStr(f.start)>>,
                <<"end", PyStr(f.end)>>,
                <<"title", PyStr(f.title)>>,
                <<"notes", PyStr(f.notes)>>,
                <<"assigned_user_ids",
                  IF Len(f.assigned_user_ids) > 0
                  THEN IntList(ParseUserIds(f.assigned_user_ids))
                  ELSE PyList(<<>>)>>,
                <<"draft", PyBool(f.draft)>>,
                <<"active", PyBool(f.active)>>,
                <<"all_day", PyBool(f.all_day)>>,
                <<"jobcode_id",
                  IF Len(f.jobcode_id) > 0 THEN PyInt(ParseInt(f.jobcode_id).v)
                  ELSE PyInt(0)>>,
                <<"color", PyStr(f.color)>> >>)

\* An int() of lines 168 / 172 raises ValueError.
CreateRaises(f) ==
    \/ Len(f.assigned_user_ids) > 0 /\ ~AllOk(ParseUserIds(f.assigned_user_ids))
    \/ Len(f.jobcode_id) > 0 /\ ~ParseInt(f.jobcode_id).ok


\* Faulty variant: the key is written whether or not the field was filled in.
SetIf_always(d, text, key, value) == DictSet(d, key, value)

\* if text: d[key] = value
SetIf(d, text, key, value) == IF Len(text) > 0 THEN DictSet(d, key, value) ELSE d

\* Lines 204-225: the mapping the Update page hands to update_schedule_event.
UpdateData(f) ==
    LET d0 == << <<"id", IF Len(f.event_id) > 0 THEN PyInt(ParseInt(f.event_id).v)
                         ELSE PyNone>> >>
        d1 == SetIf(d0, f.new_title, "title", PyStr(f.new_title))
        d2 == SetIf(d1, f.new_start, "start", PyStr(f.new_start))
        d3 == SetIf(d2, f.new_end, "end", PyStr(f.new_end))
        d4 == SetIf(d3, f.new_notes, "notes", PyStr(f.new_notes))
        d5 == SetIf(d4, f.new_assigned_user_ids, "assigned_user_ids",
                    IntList(ParseUserIds(f.new_assigned_user_ids)))
        d6 == DictSet(d5, "draft", PyBool(f.new_draft))
        d7 == DictSet(d6, "active", PyBool(f.new_active))
        d8 == DictSet(d7, "all_day", PyBool(f.new_all_day))
        d9 == SetIf(d8, f.new_jobcode_id, "jobcode_id",
                    PyInt(ParseInt(f.new_jobcode_id).v))
        d10 == SetIf(d9, f.new_color, "color", PyStr(f.new_color))
    IN  DropNone(d10)

\* An int() of lines 205 / 216 / 221 raises ValueError.
UpdateRaises(f) ==
    \/ Len(f.event_id) > 0 /\ ~ParseInt(f.event_id).ok
    \/ ~AllOk(ParseUserIds(f.new_assigned_user_ids))
    \/ Len(f.new_jobcode_id) > 0 /\ ~ParseInt(f.new_jobcode_id).ok

\* The flag of the event a request targets, as the request leaves.
FlagOf(remote, request) ==
    IF TargetId(request) = 0 THEN "none"
    ELSE IF remote[TargetId(request)] THEN "active" ELSE "inactive"

\* ----------------------------------------------------------------- actions
Init ==
    /\ api_token = <<>>
    /\ page = "Home"
    /\ pressed = ""
    /\ form = <<>>
    /\ sent = <<>>
    /\ response = NoResponse
    /\ data = PyNone
    /\ ui = <<>>
    /\ remoteActive \in [EventIds -> BOOLEAN]
    /\ activeBefore = "none"

\* A script run with no button pressed renders the page only.
Rendered ==
    /\ pressed' = ""
    /\ form' = <<>>
    /\ sent' = <<>>
    /\ response' = NoResponse
    /\ data' = PyNone
    /\ ui' = <<>>
    /\ activeBefore' = "none"
    /\ UNCHANGED remoteActive

\* Lines 17-20: the token is typed in the sidebar.
EnterToken ==
    \E t \in Tokens :
        /\ api_token' = t
        /\ UNCHANGED page
        /\ Rendered

\* Lines 18-20, 90-91: with a token, a page is selected in the sidebar.
SelectPage ==
    \E p \in Pages :
        /\ api_token # <<>>
        /\ page' = p
        /\ UNCHANGED api_token
        /\ Rendered

\* Every edit of a field reruns the script with no button pressed, so a
\* button is pressed in a run that rendered the page only.
CanPress(p) == api_token # <<>> /\ page = p /\ pressed = ""

\* The run raised before any request left.
Raised(button, f, what) ==
    /\ pressed' = button
    /\ form' = f
    /\ sent' = <<>>
    /\ response' = NoResponse
    /\ data' = PyNone
    /\ ui' = <<Exception(what)>>
    /\ activeBefore' = "none"
    /\ UNCHANGED <<api_token, page, remoteActive>>

\* The run issued one write request and rendered its answer.
Wrote(button, f, request, r, done, failed) ==
    /\ pressed' = button
    /\ form' = f
    /\ sent' = <<request>>
    /\ response' = r
    /\ data' = PyNone
    /\ ui' = RenderWrite(r, done, failed)
    /\ activeBefore' = FlagOf(remoteActive, request)
    /\ remoteActive' = RemoteApply(remoteActive, request, r)
    /\ UNCHANGED <<api_token, page>>

\* Lines 117-141: "Fetch Schedules".
FetchSchedules ==
    /\ CanPress("View Schedules")
    /\ \E start_date \in Dates, end_date \in Dates, r \in Responses(FetchBodies) :
        LET start_dt  == CombineUtc(start_date, MinTime)
            end_dt    == CombineUtc(end_date, MaxTime)
            start_iso == Isoformat(ReplaceMicrosecond0(start_dt))
            end_iso   == Isoformat(ReplaceMicrosecond0(end_dt))
            got       == fetch_schedule_events(start_iso, end_iso, api_token, r)
        IN  /\ pressed' = "Fetch Schedules"
            /\ form' = [start_date |-> start_date, end_date |-> end_date]
            /\ sent' = got.sent
            /\ response' = r
            /\ data' = got.data
            /\ ui' = got.ui \o RenderSchedules(got.data)
            /\ activeBefore' = "none"
            /\ UNCHANGED <<api_token, page, remoteActive>>

\* Lines 151-181: "Create Event".
CreateEvent ==
    /\ CanPress("Create Schedule")
    /\ \E start \in StartTexts, end \in EndTexts, title \in TitleTexts,
       notes \in NotesTexts, assigned_user_ids \in UserIdsTexts,
       draft \in BOOLEAN, active \in BOOLEAN, all_day \in BOOLEAN,
       jobcode_id \in JobcodeTexts, color \in ColorTexts,
       r \in Responses(WriteBodies) :
        LET f == [start |-> start, end |-> end, title |-> title, notes |-> notes,
                  assigned_user_ids |-> assigned_user_ids, draft |-> draft,
                  active |-> active, all_day |-> all_day,
                  jobcode_id |-> jobcode_id, color |-> color]
        IN  IF CreateRaises(f)
            THEN Raised("Create Event", f, "ValueError")
            ELSE Wrote("Create Event", f,
                       create_schedule_event(CreateEventData(f), api_token), r,
                          "Schedule event created successfully!",
                          "Failed to create event")

\* Lines 190-231: "Update Event".
UpdateEvent ==
    /\ CanPress("Update Schedule")
    /\ \E event_id \in EventIdTexts, new_title \in TitleTexts,
       new_start \in StartTexts, new_end \in EndTexts, new_notes \in NotesTexts,
       new_assigned_user_ids \in UserIdsTexts,
       new_draft \in BOOLEAN, new_active \in BOOLEAN, new_all_day \in BOOLEAN,
       new_jobcode_id \in JobcodeTexts, new_color \in ColorTexts,
       r \in Responses(WriteBodies) :
        LET f == [event_id |-> event_id, new_title |-> new_title,
                  new_start |-> new_start, new_end |-> new_end,
                  new_notes |-> new_notes,
                  new_assigned_user_ids |-> new_assigned_user_ids,
                  new_draft |-> new_draft, new_active |-> new_active,
                  new_all_day |-> new_all_day,
                  new_jobcode_id |-> new_jobcode_id, new_color |-> new_color]
        IN  IF UpdateRaises(f)
            THEN Raised("Update Event", f, "ValueError")
            ELSE Wrote("Update Event", f,
                       update_schedule_event(UpdateData(f), api_token), r,
                          "Schedule event updated successfully!",
                          "Failed to update event")

\* Lines 240-251: "Deactivate Event".
DeactivateEvent ==
    /\ CanPress("Delete Schedule")
    /\ \E event_id \in EventIdTexts, r \in Responses(WriteBodies) :
        LET f == [event_id |-> event_id]
        IN  IF Len(event_id) = 0
               THEN /\ pressed' = "Deactivate Event"
                    /\ form' = f
                    /\ sent' = <<>>
                    /\ response' = NoResponse
                    /\ data' = PyNone
                    /\ ui' = <<Ui("error", "Please provide the Event ID to deactivate.",
                                  0, PyNone)>>
                    /\ activeBefore' = "none"
                    /\ UNCHANGED <<api_token, page, remoteActive>>
               ELSE IF ~ParseInt(event_id).ok
            THEN Raised("Deactivate Event", f, "ValueError")
            ELSE Wrote("Deactivate Event", f,
                          delete_schedule_event(ParseInt(event_id).v, api_token), r,
                          "Schedule event deactivated successfully!",
                          "Failed to deactivate event")

Next ==
    \/ EnterToken
    \/ SelectPage
    \/ FetchSchedules
    \/ CreateEvent
    \/ UpdateEvent
    \/ DeactivateEvent

Spec == Init /\ [][Next]_vars

\* ------------------------------------------------- the adapter called directly
\* Mappings a caller may hand to create_schedule_event / update_schedule_event:
\* with or without an id, with or without a schedule_calendar_id of its own
\* (None, another calendar, the fixed calendar, a text), with or without more.
CallerCalendarIds == <<PyNone, PyInt(1), PyInt(SCHEDULE_CALENDAR_ID), PyStr(<<"x">>)>>

CallerMapping(id, calendar, more) ==
    (IF id = 0 THEN <<>> ELSE << <<"id", PyInt(id)>> >>)
    \o (IF calendar = 0 THEN <<>>
        ELSE << <<"schedule_calendar_id", CallerCalendarIds[calendar]>> >>)
    \o (IF more THEN << <<"title", PyStr(<<"T">>)>>, <<"active", PyBool(TRUE)>> >>
        ELSE <<>>)

\* The call issued one write request; the adapter itself renders nothing.
Called(function, input, request, r) ==
    /\ pressed' = function
    /\ form' = input
    /\ sent' = <<request>>
    /\ response' = r
    /\ data' = PyNone
    /\ ui' = <<>>
    /\ activeBefore' = FlagOf(remoteActive, request)
    /\ remoteActive' = RemoteApply(remoteActive, request, r)
    /\ UNCHANGED <<api_token, page>>

CallCreate ==
    /\ api_token # <<>> /\ pressed = ""
    /\ \E id \in 0..MaxEventId, calendar \in 0..Len(CallerCalendarIds),
          more \in BOOLEAN, r \in Responses(WriteBodies) :
        LET event_data == CallerMapping(id, calendar, more)
        IN  Called("create_schedule_event", [event_data |-> event_data],
                   create_schedule_event(event_data, api_token), r)

CallUpdate ==
    /\ api_token # <<>> /\ pressed = ""
    /\ \E id \in 0..MaxEventId, calendar \in 0..Len(CallerCalendarIds),
          more \in BOOLEAN, r \in Responses(WriteBodies) :
        LET event_data == CallerMapping(id, calendar, more)
        IN  Called("update_schedule_event", [event_data |-> event_data],
                   update_schedule_event(event_data, api_token), r)

CallDelete ==
    /\ api_token # <<>> /\ pressed = ""
    /\ \E event_id \in 0..(MaxEventId + 1), r \in Responses(WriteBodies) :
        Called("delete_schedule_event", [event_id |-> event_id],
               delete_schedule_event(event_id, api_token), r)

NextApi ==
    \/ Next
    \/ CallCreate
    \/ CallUpdate
    \/ CallDelete

\* The pages' runs together with direct calls of the three write functions.
SpecApi == Init /\ [][NextApi]_vars

\* ================================================================== claims
WriteButtons == {"Create Event", "Update Event", "Deactivate Event"}

IsWrite(request) == request.method \in {"POST", "PUT"}

\* The data element of the (single) request of the run.
Payload == sent[1].json.data[1]

IsInt(x, n) == x.t = "int" /\ x.v = n

IsBool(x, b) == x.t = "bool" /\ x.v = b

KeyCount(d, k) == Cardinality({i \in 1..Len(d) : d[i][1] = k})

\* C1: every outbound write request (create, update, delete) has exactly one
\* data element, and that element carries schedule_calendar_id = 563646
\* exactly once, whatever mapping the caller handed in: a caller-supplied
\* schedule_calendar_id is overwritten.
C1_FixedCalendarId ==
    \A i \in 1..Len(sent) :
        IsWrite(sent[i]) =>
            /\ Len(sent[i].json.data) = 1
            /\ KeyCount(sent[i].json.data[1], "schedule_calendar_id") = 1
            /\ IsInt(DictGet(sent[i].json.data[1], "schedule_calendar_id", PyNone),
                     SCHEDULE_CALENDAR_ID)

\* A create call whose caller supplied another calendar id left as a request.
C1_Witness ==
    /\ pressed = "create_schedule_event"
    /\ IsInt(DictGet(form.event_data, "schedule_calendar_id", PyNone), 1)
    /\ Len(sent) = 1
    /\ sent[1].method = "POST"

\* C2 (as claimed): "Update Event" pressed with an empty "Event ID to update"
\* sends no HTTP request and renders an error.
C2_UpdateWithoutIdRejected ==
    (pressed = "Update Event" /\ Len(form.event_id) = 0) =>
        /\ sent = <<>>
        /\ \E i \in 1..Len(ui) : ui[i].kind \in {"error", "exception"}

SendsActiveTrue ==
    /\ Len(sent) = 1
    /\ IsWrite(sent[1])
    /\ IsBool(DictGet(Payload, "active", PyNone), TRUE)

\* C3 (as claimed): no request of any page sets the active flag of an event
\* that is inactive on the remote side back to true.
C3_NoReactivation == ~(activeBefore = "inactive" /\ SendsActiveTrue)

\* C3 (amended): a request that sets the active flag of a remotely inactive
\* event back to true comes from the Update page with "Active" checked, and an
\* update of an inactive event does so exactly when "Active" is checked; fetch,
\* create and deactivate never do.
C3_ReactivationOnlyByUpdate ==
    /\ (activeBefore = "inactive" /\ SendsActiveTrue) =>
           (pressed = "Update Event" /\ form.new_active)
    /\ (pressed = "Update Event" /\ activeBefore = "inactive") =>
           (SendsActiveTrue <=> form.new_active)
    /\ (pressed = "Deactivate Event" /\ Len(sent) = 1) =>
           IsBool(DictGet(Payload, "active", PyNone), FALSE)

\* An update with "Active" checked was accepted for an inactive event, which
\* is active again.
C3_Witness ==
    /\ pressed = "Update Event"
    /\ activeBefore = "inactive"
    /\ SendsActiveTrue
    /\ response.status_code = 200
    /\ remoteActive[TargetId(sent[1])]

FetchError(m) == m.kind = "error" /\ m.what = "Error fetching schedules"

\* C4: one "Fetch Schedules" issues exactly one GET; on status 200 fetch_schedule_events returns the whole parsed body and
\* reports no error, on any other status it returns no data and reports one
\* error carrying the status code and the raw body.
C4_FetchAllOrError ==
    pressed = "Fetch Schedules" =>
        /\ Len(sent) = 1
        /\ sent[1].method = "GET"
        /\ IF response.status_code = 200
           THEN /\ data = Json(response.text)
                /\ \A i \in 1..Len(ui) : ~FetchError(ui[i])
           ELSE /\ IsNone(data)
                /\ Len(ui) = 1
                /\ FetchError(ui[1])
                /\ ui[1].status = response.status_code
                /\ ui[1].detail.v = response.text

\* A fetch answered 404 returned nothing and showed the error.
C4_Witness ==
    /\ pressed = "Fetch Schedules"
    /\ response.status_code = 404
    /\ IsNone(data)
    /\ Len(ui) = 1
    /\ FetchError(ui[1])

Verdicts == {i \in 1..Len(ui) : ui[i].kind \in {"success", "error"}}

\* C5: a create, update or deactivate run issues at most one request (none is
\* repeated); when a request was issued, status 200 / 201 renders exactly one
\* success message followed by the parsed body, and every other status renders
\* exactly one error message with the status code and the raw body.
C5_SingleAttemptAndVerdict ==
    pressed \in WriteButtons =>
        /\ Len(sent) <= 1
        /\ Len(sent) = 1 =>
            /\ Cardinality(Verdicts) = 1
            /\ IF response.status_code \in {200, 201}
               THEN /\ Len(ui) = 2
                    /\ ui[1].kind = "success"
                    /\ ui[2].kind = "json"
                    /\ ui[2].detail = Json(response.text)
               ELSE /\ Len(ui) = 1
                    /\ ui[1].kind = "error"
                    /\ ui[1].status = response.status_code
                    /\ ui[1].detail.v = response.text

\* An update answered 201 rendered the success message and the body.
C5_Witness ==
    /\ pressed = "Update Event"
    /\ Len(sent) = 1
    /\ response.status_code = 201
    /\ Len(ui) = 2
    /\ ui[1].kind = "success"

OnlyIdFilled(f) ==
    /\ Len(f.event_id) > 0
    /\ Len(f.new_title) = 0 /\ Len(f.new_start) = 0 /\ Len(f.new_end) = 0
    /\ Len(f.new_notes) = 0 /\ Len(f.new_assigned_user_ids) = 0
    /\ Len(f.new_jobcode_id) = 0 /\ Len(f.new_color) = 0

\* The optional keys of an update and the fields they come from.
OptionalField(f, key) ==
    CASE key = "title" -> f.new_title
      [] key = "start" -> f.new_start
      [] key = "end"   -> f.new_end
      [] key = "notes" -> f.new_notes
      [] key = "assigned_user_ids" -> f.new_assigned_user_ids
      [] key = "jobcode_id" -> f.new_jobcode_id
      [] key = "color" -> f.new_color

OptionalKeys ==
    {"title", "start", "end", "notes", "assigned_user_ids", "jobcode_id", "color"}

\* C6: an update sent with only the event id filled in has the key set
\* {id, schedule_calendar_id, draft, active, all_day}; the three flags are sent
\* as the checkboxes stand (False at the form defaults); an optional key is in
\* the payload only if its field was filled in.
C6_UpdateSparsePayload ==
    (pressed = "Update Event" /\ Len(sent) = 1) =>
        /\ OnlyIdFilled(form) =>
               DictKeys(Payload) =
                   {"id", "schedule_calendar_id", "draft", "active", "all_day"}
        /\ IsBool(DictGet(Payload, "draft", PyNone), form.new_draft)
        /\ IsBool(DictGet(Payload, "active", PyNone), form.new_active)
        /\ IsBool(DictGet(Payload, "all_day", PyNone), form.new_all_day)
        /\ \A key \in OptionalKeys :
               DictHas(Payload, key) => Len(OptionalField(form, key)) > 0

\* An update with only the id filled in and the checkboxes untouched was sent.
C6_Witness ==
    /\ pressed = "Update Event"
    /\ Len(sent) = 1
    /\ OnlyIdFilled(form)
    /\ ~form.new_draft /\ ~form.new_active /\ ~form.new_all_day
    /\ IsBool(DictGet(Payload, "active", PyNone), FALSE)

\* C7 (as claimed): in a create request the keys title, notes and color are
\* absent when their field was left empty; draft, active and all_day are always
\* present, jobcode_id is 0 and assigned_user_ids is [] when unset.
C7_CreateOmitsEmptyFields ==
    (pressed = "Create Event" /\ Len(sent) = 1) =>
        /\ Len(form.title) = 0 => ~DictHas(Payload, "title")
        /\ Len(form.notes) = 0 => ~DictHas(Payload, "notes")
        /\ Len(form.color) = 0 => ~DictHas(Payload, "color")
        /\ {"draft", "active", "all_day"} \subseteq DictKeys(Payload)
        /\ Len(form.jobcode_id) = 0 => IsInt(DictGet(Payload, "jobcode_id", PyNone), 0)
        /\ Len(form.assigned_user_ids) = 0 =>
               LET ids == DictGet(Payload, "assigned_user_ids", PyNone)
               IN  ids.t = "list" /\ Len(ids.v) = 0

\* The number of events a fetched document holds: the size of its
\* results.schedule_events collection, 0 when it has none.
EventCount(doc) ==
    IF doc.t # "dict" THEN 0
    ELSE LET results == DictGet(doc.v, "results", PyNone)
         IN  IF results.t # "dict" THEN 0
             ELSE LET schedules == DictGet(results.v, "schedule_events", PyNone)
                  IN  IF schedules.t \in {"dict", "list"} THEN Len(schedules.v) ELSE 0

IsWarning(m) == m.kind = "warning"

\* C8 (as claimed): a fetch answered 200 with no events renders the "No
\* schedule events found" warning and nothing else, whatever the body's shape.
C8_EmptyFetchWarns ==
    (pressed = "Fetch Schedules" /\ response.status_code = 200
        /\ EventCount(Json(response.text)) = 0) =>
        /\ Len(ui) = 1
        /\ IsWarning(ui[1])

\* C9: "Deactivate Event" with an empty or non-integer id sends nothing; with
\* an integer id it sends exactly one PUT whose single data element is exactly
\* {id, schedule_calendar_id: 563646, active: false}.
C9_DeactivateValidates ==
    pressed = "Deactivate Event" =>
        IF Len(form.event_id) = 0 \/ ~ParseInt(form.event_id).ok
        THEN sent = <<>>
        ELSE /\ Len(sent) = 1
             /\ sent[1].method = "PUT"
             /\ Len(sent[1].json.data) = 1
             /\ Len(Payload) = 3
             /\ DictKeys(Payload) = {"id", "schedule_calendar_id", "active"}
             /\ IsInt(DictGet(Payload, "id", PyNone), ParseInt(form.event_id).v)
             /\ IsInt(DictGet(Payload, "schedule_calendar_id", PyNone),
                      SCHEDULE_CALENDAR_ID)
             /\ IsBool(DictGet(Payload, "active", PyNone), FALSE)

\* A deactivation with an integer id was sent.
C9_Witness ==
    /\ pressed = "Deactivate Event"
    /\ ParseInt(form.event_id).ok
    /\ Len(sent) = 1
    /\ sent[1].method = "PUT"

TimestampOk(d, key) ==
    LET x == DictGet(d, key, PyNone)
    IN  x.t = "str" => ~HasMicroseconds(x.v)

\* C10 (as claimed): no start or end timestamp of any fetch, create or update
\* request has a microsecond component.
C10_NoMicrosecondsOnWire ==
    \A i \in 1..Len(sent) :
        IF sent[i].method = "GET"
        THEN /\ ~HasMicroseconds(sent[i].params.start)
             /\ ~HasMicroseconds(sent[i].params.end)
        ELSE /\ TimestampOk(sent[i].json.data[1], "start")
             /\ TimestampOk(sent[i].json.data[1], "end")
====
